---- MODULE Spec2Model ----
(***************************************************************************)
(* Model of src/main.go: the catalog reader (readCsvFile), the resolver /  *)
(* fetcher / merger (queryWdq), the statistics tasks (queryCommons,        *)
(* queryCommonsSubcats), the renderer (updateWikiPage) and main.           *)
(*                                                                         *)
(* Strings are sequences of byte values, so that prefix trimming, decimal  *)
(* formatting, concatenation and Go's bytewise string order are computed   *)
(* rather than assumed.                                                    *)
(***************************************************************************)
EXTENDS Integers, Sequences, FiniteSets, TLC

(***************************************************************************)
(* Bounds of the model.                                                    *)
(***************************************************************************)
\* catalog rows the reader delivers at most
MaxRows == 2
\* non-empty result pages the statistics service hands out in one run
MaxAnswers == 2

(***************************************************************************)
(* Program constants.                                                      *)
(***************************************************************************)
\* r.FieldsPerRecord = 9
FieldsPerRecord == 9
\* i%50 == 0, categoryNames[i-50:i]
BatchSize == 50
\* resp.Status() == 200
StatusOK == 200
\* "Category:"
CATEGORY_NAMESPACE == <<67, 97, 116, 101, 103, 111, 114, 121, 58>>
\* the empty string
EmptyString == <<>>

(***************************************************************************)
(* Input alphabets.                                                        *)
(***************************************************************************)
\* (scientific name, taxon identifier) of a catalog row: "B" of "Q1", "AB" of
\* "Q1" and "B" of "Q2": two names for one taxon, one name for two taxa
Rows == {<<(<<66>>), (<<81, 49>>)>>, <<(<<65, 66>>), (<<81, 49>>)>>, <<(<<66>>), (<<81, 50>>)>>}
\* field counts of a catalog row, -1 standing for a read error other than EOF
RowShapes == {FieldsPerRecord - 1, FieldsPerRecord, -1}
\* lengths of the lookup answers that reach or pass the batch size
LongLens == {BatchSize - 1, BatchSize, BatchSize + 1, 2 * BatchSize, 2 * BatchSize + 1}
\* transport statuses of the lookup service
HttpStatuses == {StatusOK, 500}

\* value of an optional integer field of a page: GetInt64 returns (v, err)
Field(n) == [ok |-> TRUE, v |-> n]
Absent == [ok |-> FALSE, v |-> 0]
FileVals == {Absent, Field(3)}
SubcatVals == {Absent, Field(1)}

(***************************************************************************)
(* String helpers.                                                         *)
(***************************************************************************)
\* strings.TrimPrefix(s, "Q")
TrimPrefixQ(s) == IF Len(s) >= 1 /\ s[1] = 81 THEN Tail(s) ELSE s

\* strconv.Itoa for n >= 0
RECURSIVE Itoa(_)
Itoa(n) == IF n < 10 THEN <<48 + n>> ELSE Itoa(n \div 10) \o <<48 + (n % 10)>>

\* a[i].OriginalName < a[j].OriginalName : Go compares strings bytewise
RECURSIVE StrLess(_, _)
StrLess(s, t) ==
  IF t = <<>> THEN FALSE
  ELSE IF s = <<>> THEN TRUE
  ELSE IF s[1] # t[1] THEN s[1] < t[1]
  ELSE StrLess(Tail(s), Tail(t))

\* s[lo:hi] of Go, on a 1-based sequence
GoSlice(s, lo, hi) == SubSeq(s, lo + 1, hi)

(***************************************************************************)
(* Data structures.                                                        *)
(***************************************************************************)
\* type categoryInfo struct; its zero value is what a missing map key yields
ZeroInfo == [files |-> 0, subCats |-> 0, subCatsFiles |-> 0]

\* p is a prefix of s
HasPrefix(s, p) == Len(p) <= Len(s) /\ SubSeq(s, 1, Len(p)) = p

\* MapGet as a lookup that settles for a key the wanted one is a prefix of
MapGetByPrefix(m, k, zero) ==
  IF k \in DOMAIN m THEN m[k]
  ELSE IF \E x \in DOMAIN m : HasPrefix(x, k) THEN m[CHOOSE x \in DOMAIN m : HasPrefix(x, k)]
  ELSE zero

\* m[k] on a Go map: the zero value when the key is missing
MapGet(m, k, zero) == IF k \in DOMAIN m THEN m[k] ELSE zero

\* m[k] = v on a Go map
MapPut(m, k, v) == [x \in (DOMAIN m) \cup {k} |-> IF x = k THEN v ELSE m[x]]

\* the specimen literal built by readCsvFile from a row; the accession number
\* (column #6) is the row's inventory number, written in decimal.  The columns
\* that are only copied to the template (vernacular name, treatment, specimen
\* category) play no part in the pipeline and are left out.
NewSpecimen(name, id, rowNo) ==
  [OriginalName |-> name, WikidataItemId |-> id, AccessionNumber |-> Itoa(rowNo),
   CommonsCategoryName |-> EmptyString,
   FileCount |-> 0, SubCats |-> 0, SubCatsFileCounts |-> 0, TotalFiles |-> 0]

\* a statistics task: the queryCommons goroutine of one chunk.  Its categoryNames
\* argument is the slice [lo:hi] of queryWdq's categoryNames, kept as its bounds:
\* the elements below hi are never written again.
NewTask(chunk) ==
  [lo |-> chunk[1], hi |-> chunk[2], pc |-> "next", got |-> FALSE,
   title |-> EmptyString, info |-> ZeroInfo]

(***************************************************************************)
(* The environment: what the external services may answer.                 *)
(***************************************************************************)
\* one row of result.Props["373"]: (item number, ordinal, category name); the
\* short answers are about items 1 and 2 and the categories "Foo" and "G"
ShortRows == {<<1, 0, <<70, 111, 111>> >>, <<2, 0, <<70, 111, 111>> >>, <<2, 0, <<71>> >>}

ShortAnswers ==
  {<<>>} \cup {<<a>> : a \in ShortRows} \cup {<<a, b>> : a \in ShortRows, b \in ShortRows}

\* a long answer: row p names item 1 + p % 2 and the category whose name is p in
\* decimal; from row 2 * BatchSize + 1 on the names of the first rows come again
LongAnswer(n) == [p \in 1..n |-> <<1 + (p % 2), 0, Itoa(1 + ((p - 1) % (2 * BatchSize)))>>]

LongAnswers == {LongAnswer(n) : n \in LongLens}

\* the rows the lookup may answer with, for the catalog read: the long answers
\* are tried on the catalog of one specimen, "B" of taxon "Q1"
LookupAnswers(cat) ==
  ShortAnswers \cup (IF cat = <<NewSpecimen(<<66>>, <<81, 49>>, 1)>> THEN LongAnswers ELSE {})

\* the titles the statistics service reports on when asked about names[lo:hi]:
\* the first and the last asked
AnswerTitles(names, lo, hi) == IF lo >= hi THEN {} ELSE {names[lo + 1], names[hi]}

\* one element of "query.pages"
PageEntries(names, lo, hi) ==
  [title : AnswerTitles(names, lo, hi), files : FileVals, subcats : SubcatVals]

\* what the service reported in an optional field, an absent one reporting nothing
Reported(field) == IF field.ok THEN field.v ELSE 0

\* the files reported on the pages of a subcategory query
RECURSIVE ReportedFiles(_)
ReportedFiles(pages) ==
  IF pages = <<>> THEN 0 ELSE Reported(Head(pages)) + ReportedFiles(Tail(pages))

\* what the statistics service says of a category in one answer: its own files,
\* its subcategories and, when the task went on to ask, the files in these
Told(page, subpages) ==
  [files |-> Reported(page.files), subCats |-> Reported(page.subcats),
   subCatsFiles |-> ReportedFiles(subpages)]

\* the record of what the service has told: nothing yet
NothingServed == [steady |-> TRUE, told |-> <<>>]

\* the record after the service has told task t about page.title.  As long as
\* the service says the same of a title every time (steady), told keeps what it
\* said of each title and the tasks it said it to; nothing is kept of a service
\* that has contradicted itself.
Serve(sv, t, page, subpages) ==
  LET now == Told(page, subpages)
      title == page.title
  IN  IF ~sv.steady THEN sv
      ELSE IF title \in DOMAIN sv.told /\ sv.told[title].data # now
             THEN [steady |-> FALSE, told |-> <<>>]
      ELSE [sv EXCEPT !.told =
              [x \in (DOMAIN sv.told) \cup {title} |->
                 IF x = title
                   THEN [data |-> now,
                         tasks |-> {t} \cup (IF title \in DOMAIN sv.told
                                               THEN sv.told[title].tasks ELSE {})]
                   ELSE sv.told[x]]]

\* the pages of a subcategory query: no subcategory page, one, or two of which
\* one has no file count
SubPages == {<<>>, <<Field(2)>>, <<Absent, Field(2)>>, <<Field(2), Absent>>}

(***************************************************************************)
(* State.                                                                  *)
(***************************************************************************)
VARIABLES
  proc,                  \* "running", "fatal" (log.Fatal), "panic", "exited" (main returned)
  diag,                  \* what the process died of: the diagnostic of log.Fatal or panic
  rpc,                   \* readCsvFile: "open", "read", "done"; "gone" with the process
  catalog,               \* the specimens sent on the specimens channel so far, in file order
  specimensClosed,       \* close(specimens) has run
  wpc,                   \* queryWdq: "drain", "props", "wait", "merge", "returned", "gone"
  specimensByWikidataId, \* map[string][]specimen
  wikidataIds,           \* []string
  lookups,               \* number of napping.Get calls made
  props,                 \* result.Props["373"]
  i,                     \* index of the loop over props (0-based, as in the source)
  cursor,                \* position in categoryNames
  categoryNames,         \* []string
  commonsQueries,        \* []chan int, each channel named by the task that closes it
  waitIdx,               \* position of the loop that waits on commonsQueries (1-based)
  tasks,                 \* the queryCommons goroutines, in spawn order
  categoryInfo,          \* map[string]categoryInfo shared by the tasks
  answers,               \* result pages handed out by the statistics service so far
  queryErr,              \* a statistics query failed (transport or service-level error)
  served,                \* what the statistics service has told the tasks so far (see Serve)
  mergeDone,             \* keys of the groups the merge loop has finished
  mergeCur,              \* <<key>> of the group the merge loop is in, <<>> between groups
  mergeIdx,              \* next position inside that group (1-based)
  upc,                   \* updateWikiPage: "idle", "recv", "edit", "done", "gone"
  specimensBuffer,       \* []specimen
  updatedClosed,         \* close(updatedSpecimens) has run
  templateInput,         \* <<seq>> once tableTemplate.Execute was given seq, <<>> before
  edits,                 \* number of wiki.Edit calls made
  cClosed                \* close(c) has run

vars ==
  <<proc, diag, rpc, catalog, specimensClosed, wpc, specimensByWikidataId, wikidataIds,
    lookups, props, i, cursor, categoryNames, commonsQueries, waitIdx, tasks,
    categoryInfo, answers, queryErr, served, mergeDone, mergeCur, mergeIdx, upc,
    specimensBuffer, updatedClosed, templateInput, edits, cClosed>>

readerVars == <<rpc, catalog, specimensClosed>>
resolverVars ==
  <<specimensByWikidataId, wikidataIds, lookups, props, i, cursor, categoryNames,
    commonsQueries, waitIdx>>
taskVars == <<tasks, categoryInfo, answers, queryErr, served>>
mergeVars == <<mergeDone, mergeCur, mergeIdx>>
renderVars == <<upc, specimensBuffer, updatedClosed, templateInput, edits, cClosed>>

Init ==
  /\ proc = "running"
  /\ diag = "none"
  /\ rpc = "open"
  /\ catalog = <<>>
  /\ specimensClosed = FALSE
  /\ wpc = "drain"
  /\ specimensByWikidataId = <<>>
  /\ wikidataIds = <<>>
  /\ lookups = 0
  /\ props = <<>>
  /\ i = 0
  /\ cursor = 0
  /\ categoryNames = <<>>
  /\ commonsQueries = <<>>
  /\ waitIdx = 1
  /\ tasks = <<>>
  /\ categoryInfo = <<>>
  /\ answers = 0
  /\ queryErr = FALSE
  /\ served = NothingServed
  /\ mergeDone = {}
  /\ mergeCur = <<>>
  /\ mergeIdx = 1
  /\ upc = "idle"
  /\ specimensBuffer = <<>>
  /\ updatedClosed = FALSE
  /\ templateInput = <<>>
  /\ edits = 0
  /\ cClosed = FALSE

\* The process ends: its goroutines stop where they are and its memory is gone
\* (no deferred call runs on log.Fatal).  What stays is what the outside world
\* has seen: how it ended, the requests made and the edits published.
Exit(how, why) ==
  /\ proc' = how
  /\ diag' = why
  /\ rpc' = "gone"
  /\ catalog' = <<>>
  /\ specimensClosed' = FALSE
  /\ wpc' = "gone"
  /\ specimensByWikidataId' = <<>>
  /\ wikidataIds' = <<>>
  /\ props' = <<>>
  /\ i' = 0
  /\ cursor' = 0
  /\ categoryNames' = <<>>
  /\ commonsQueries' = <<>>
  /\ waitIdx' = 1
  /\ tasks' = <<>>
  /\ categoryInfo' = <<>>
  /\ served' = NothingServed
  /\ mergeDone' = {}
  /\ mergeCur' = <<>>
  /\ mergeIdx' = 1
  /\ upc' = "gone"
  /\ specimensBuffer' = <<>>
  /\ updatedClosed' = FALSE
  /\ templateInput' = <<>>
  /\ cClosed' = FALSE

\* Fatal when check only logs the error and returns
FatalLogOnly(why) ==
  /\ diag' = why
  /\ UNCHANGED <<proc, readerVars, wpc, resolverVars, taskVars, mergeVars, renderVars>>

\* check(e) with e != nil: log.Fatal(e) prints e and exits
Fatal(why) == Exit("fatal", why) /\ UNCHANGED <<lookups, answers, queryErr, edits>>

(***************************************************************************)
(* readCsvFile                                                             *)
(***************************************************************************)
\* os.Open(csvLocation); check(err)
OpenCatalog(ok) ==
  /\ proc = "running" /\ rpc = "open"
  /\ IF ok
       THEN /\ rpc' = "read"
            /\ UNCHANGED <<proc, diag, catalog, specimensClosed, wpc, resolverVars,
                           taskVars, mergeVars, renderVars>>
       ELSE Fatal("open")

\* Receive with "specimensByWikidataId[wikidataId] = []specimen{i}"
ReceiveOverwrite(groups, sp) == MapPut(groups, TrimPrefixQ(sp.WikidataItemId), <<sp>>)

\* the body of "for i := range specimens" in queryWdq, run on the specimen received
Receive(groups, sp) ==
  LET wikidataId == TrimPrefixQ(sp.WikidataItemId)
  IN  MapPut(groups, wikidataId, Append(MapGet(groups, wikidataId, <<>>), sp))

\* the catalogs tried: up to MaxRows rows of any kind, and one row more, of taxon
\* "Q2", after two rows of taxon "Q1"
MoreRows(cat, row) ==
  \/ Len(cat) < MaxRows
  \/ /\ Len(cat) = 2
     /\ cat[1].WikidataItemId = <<81, 49>> /\ cat[2].WikidataItemId = <<81, 49>>
     /\ row[2] = <<81, 50>>

\* r.Read() answers a row; check(err); specimens <- specimen, received by the
\* range loop of queryWdq (the channel is unbuffered: send and receive are one step)
ReadRow(shape, row) ==
  /\ proc = "running" /\ rpc = "read" /\ wpc = "drain"
  /\ MoreRows(catalog, row)
  /\ IF shape # FieldsPerRecord
       THEN Fatal("row")
       ELSE LET sp == NewSpecimen(row[1], row[2], Len(catalog) + 1)
            IN  /\ catalog' = Append(catalog, sp)
                /\ wikidataIds' = Append(wikidataIds, TrimPrefixQ(sp.WikidataItemId))
                /\ specimensByWikidataId' = Receive(specimensByWikidataId, sp)
                /\ UNCHANGED <<proc, diag, rpc, specimensClosed, wpc, lookups, props, i,
                               cursor, categoryNames, commonsQueries, waitIdx, taskVars,
                               mergeVars, renderVars>>

\* r.Read() answers io.EOF: break, then the deferred close(specimens)
ReadEOF ==
  /\ proc = "running" /\ rpc = "read"
  /\ rpc' = "done"
  /\ specimensClosed' = TRUE
  /\ UNCHANGED <<proc, diag, catalog, wpc, resolverVars, taskVars, mergeVars, renderVars>>

(***************************************************************************)
(* queryWdq: lookup, resolution, chunking                                  *)
(***************************************************************************)
\* Drained for a loop that gives up when no specimen is at hand
DrainedOrIdle == TRUE

\* the range over specimens has ended: the channel is closed (and empty: it is unbuffered)
Drained == specimensClosed

\* napping.Get; check(err); resp.Status() == 200; result.Status.Error != "OK"
QueryLookup(transportOk, status, statusError, answer) ==
  /\ proc = "running" /\ wpc = "drain" /\ Drained
  /\ lookups' = lookups + 1
  /\ UNCHANGED <<answers, queryErr, edits>>
  /\ IF ~transportOk THEN Exit("fatal", "lookup")
     ELSE IF status # StatusOK THEN Exit("panic", "status")
     ELSE IF statusError # "OK" THEN Exit("panic", "error")
     ELSE /\ props' = answer
          /\ wpc' = "props"
          /\ UNCHANGED <<proc, diag, readerVars, specimensByWikidataId, wikidataIds, i,
                         cursor, categoryNames, commonsQueries, waitIdx, tasks,
                         categoryInfo, served, mergeVars, upc, specimensBuffer, updatedClosed,
                         templateInput, cClosed>>

\* SetCategory without "itemSpecimens[i] = specimen": the name is set on the
\* loop's copy of the specimen and lost
SetCategoryOnCopy(groups, itemId, categoryName) == groups

\* lines 260-265: set the category name of every specimen of the item
SetCategory(groups, itemId, categoryName) ==
  LET key == Itoa(itemId)
      itemSpecimens == MapGet(groups, key, <<>>)
  IN  IF key \in DOMAIN groups
        THEN [groups EXCEPT ![key] =
                [j \in 1..Len(itemSpecimens) |->
                   [itemSpecimens[j] EXCEPT
                      !.CommonsCategoryName = CATEGORY_NAMESPACE \o categoryName]]]
        ELSE groups

\* the test "i > 0 && i%50 == 0"
BatchFull(n) == n > 0 /\ n % BatchSize = 0

\* FullChunk with the name just appended taken along: categoryNames[i-50:i+1]
FullChunkInclusive(names, n) == <<n - BatchSize, n + 1>>

\* the bounds of categoryNames[i-50:i]
FullChunk(names, n) == <<n - BatchSize, n>>

\* the bounds of categoryNames[cursor:]
LastChunk(names, cur) == <<cur, Len(names)>>

\* Spawn without "commonsQueries = append(commonsQueries, q)"
SpawnUnawaited(chunk) ==
  /\ tasks' = Append(tasks, NewTask(chunk))
  /\ UNCHANGED commonsQueries

\* q := make(chan int); commonsQueries = append(commonsQueries, q); go queryCommons(.., chunk, q)
Spawn(chunk) ==
  /\ tasks' = Append(tasks, NewTask(chunk))
  /\ commonsQueries' = Append(commonsQueries, Len(tasks) + 1)

\* one iteration of "for i, itemProp := range result.Props[COMMONS_CAT_PROPERTY]"
\* on the locals of queryWdq; chunks collects the chunk handed to a new task
PropsIter(st) ==
  LET itemProp == props[st.i + 1]
      names == Append(st.names, CATEGORY_NAMESPACE \o itemProp[3])
  IN  [groups |-> SetCategory(st.groups, itemProp[1], itemProp[3]),
       names |-> names,
       cursor |-> IF BatchFull(st.i) THEN st.i ELSE st.cursor,
       chunks |-> IF BatchFull(st.i) THEN Append(st.chunks, FullChunk(names, st.i))
                                     ELSE st.chunks,
       i |-> st.i + 1]

\* the iterations up to the end of the loop or to the first that starts a task
\* (next names the locals after one more iteration)
RECURSIVE PropsRun(_)
PropsRun(st) ==
  IF st.i >= Len(props) \/ st.chunks # <<>> THEN st
  ELSE CHOOSE end \in {PropsRun(next) : next \in {PropsIter(st)}} : TRUE

\* the loop over the lookup's rows, advanced to its next "go queryCommons" or to
\* its end: the iterations in between touch only locals of queryWdq, so no other
\* goroutine can tell them apart
PropsStep ==
  /\ proc = "running" /\ wpc = "props" /\ i < Len(props)
  /\ \E st \in {PropsRun(PropsIter([groups |-> specimensByWikidataId,
                                      names |-> categoryNames, cursor |-> cursor,
                                      chunks |-> <<>>, i |-> i]))} :
         /\ specimensByWikidataId' = st.groups
         /\ categoryNames' = st.names
         /\ cursor' = st.cursor
         /\ i' = st.i
         /\ IF st.chunks # <<>>
              THEN Spawn(st.chunks[1])
              ELSE UNCHANGED <<tasks, commonsQueries>>
  /\ UNCHANGED <<proc, diag, readerVars, wpc, wikidataIds, lookups, props, waitIdx,
                 categoryInfo, answers, queryErr, served, mergeVars, renderVars>>

\* after the loop: "Make the last query with remaining categories"
LastQuery ==
  /\ proc = "running" /\ wpc = "props" /\ i = Len(props)
  /\ Spawn(LastChunk(categoryNames, cursor))
  /\ wpc' = "wait"
  /\ UNCHANGED <<proc, diag, readerVars, specimensByWikidataId, wikidataIds, lookups, props, i,
                 cursor, categoryNames, waitIdx, categoryInfo, answers, queryErr,
                 served, mergeVars, renderVars>>

\* Signalled for a task that returns without closing its channel
SignalledNever(q) == FALSE

\* the channel q of a task is closed: the task has returned, "defer close(c)" has run
Signalled(q) == tasks[q].pc = "done"

\* "for _, q := range commonsQueries { <-q }": one receive, possible once q is closed
WaitQuery ==
  /\ proc = "running" /\ wpc = "wait" /\ waitIdx <= Len(commonsQueries)
  /\ Signalled(commonsQueries[waitIdx])
  /\ waitIdx' = waitIdx + 1
  /\ UNCHANGED <<proc, diag, readerVars, wpc, specimensByWikidataId, wikidataIds, lookups, props,
                 i, cursor, categoryNames, commonsQueries, taskVars, mergeVars, renderVars>>

\* lines 290-294: make(chan specimen); go updateWikiPage(updatedSpecimens, c)
StartUpdate ==
  /\ proc = "running" /\ wpc = "wait" /\ waitIdx > Len(commonsQueries)
  /\ wpc' = "merge"
  /\ upc' = "recv"
  /\ UNCHANGED <<proc, diag, readerVars, resolverVars, taskVars, mergeVars, specimensBuffer,
                 updatedClosed, templateInput, edits, cClosed>>

(***************************************************************************)
(* queryCommons and queryCommonsSubcats                                    *)
(***************************************************************************)
\* the categoryNames parameter of task t
TaskNames(t) == GoSlice(categoryNames, tasks[t].lo, tasks[t].hi)

\* PageInfo adding the page's files to those of the entry read
PageInfoAdding(old, page) ==
  [old EXCEPT !.files = old.files + (IF page.files.ok THEN page.files.v ELSE 0),
              !.subCats = IF page.subcats.ok THEN page.subcats.v ELSE 0]

\* PageInfo with -1 for a count that cannot be read
PageInfoSentinel(old, page) ==
  [old EXCEPT !.files = IF page.files.ok THEN page.files.v ELSE -1,
              !.subCats = IF page.subcats.ok THEN page.subcats.v ELSE 0]

\* lines 340-353: the entry read from the shared map, with the page's counts;
\* a field GetInt64 cannot read counts as 0
PageInfo(old, page) ==
  [old EXCEPT !.files = IF page.files.ok THEN page.files.v ELSE 0,
              !.subCats = IF page.subcats.ok THEN page.subcats.v ELSE 0]

\* SumFiles counting the subcategories instead of their files
CountPages(pages) == Len(pages)

\* the loop of queryCommonsSubcats over the pages of its answers
RECURSIVE SumFiles(_)
SumFiles(pages) ==
  IF pages = <<>> THEN 0
  ELSE (IF Head(pages).ok THEN Head(pages).v ELSE 0) + SumFiles(Tail(pages))

\* lines 340-357: thisCategoryInfo as it stands before it is stored; subpages
\* are the pages queryCommonsSubcats(title) gets when it is called
ThisCategoryInfo(index, page, subpages) ==
  LET info == PageInfo(MapGet(index, page.title, ZeroInfo), page)
  IN  IF info.subCats > 0 THEN [info EXCEPT !.subCatsFiles = SumFiles(subpages)] ELSE info

\* q.Next() is true and "query.pages" holds one page, which reports no
\* subcategory: lines 333-355, up to the store of line 359.  The map is read
\* here (line 340) and written in TaskStore.
TaskNextPage(t, page) ==
  /\ proc = "running" /\ tasks[t].pc = "next"
  /\ answers < MaxAnswers
  /\ page \in PageEntries(categoryNames, tasks[t].lo, tasks[t].hi)
  /\ LET info == ThisCategoryInfo(categoryInfo, page, <<>>)
     IN  /\ info.subCats = 0
         /\ tasks' = [tasks EXCEPT ![t].pc = "store", ![t].got = TRUE,
                                   ![t].title = page.title, ![t].info = info]
  /\ answers' = answers + 1
  /\ served' = Serve(served, t, page, <<>>)
  /\ UNCHANGED <<proc, diag, readerVars, wpc, resolverVars, categoryInfo, queryErr,
                 mergeVars, renderVars>>

\* the same for a page that reports subcategories: lines 333-357, with the call
\* of queryCommonsSubcats, whose requests touch nothing shared.  That query gets
\* subpages and then ends ("end"), fails ("err": its q.Next() is false, the sum
\* so far is returned) or meets an answer without "query.pages" ("nopages":
\* check(err) is fatal).
TaskNextPageSubcats(t, page, subpages, ending) ==
  /\ proc = "running" /\ tasks[t].pc = "next"
  /\ answers < MaxAnswers
  /\ page \in PageEntries(categoryNames, tasks[t].lo, tasks[t].hi)
  /\ LET info == ThisCategoryInfo(categoryInfo, page, subpages)
     IN  /\ info.subCats > 0
         /\ IF ending = "nopages"
              THEN Fatal("pages")
              ELSE /\ tasks' = [tasks EXCEPT ![t].pc = "store", ![t].got = TRUE,
                                             ![t].title = page.title, ![t].info = info]
                   /\ answers' = answers + 1
                   /\ served' = Serve(served, t, page, subpages)
                   /\ queryErr' = (queryErr \/ ending = "err")
                   /\ UNCHANGED <<proc, diag, readerVars, wpc, resolverVars, categoryInfo,
                                  mergeVars, renderVars>>

\* q.Next() is true and the answer has no "query.pages": check(err) is fatal
TaskNextMalformed(t) ==
  /\ proc = "running" /\ tasks[t].pc = "next"
  /\ Fatal("pages")

\* q.Next() is false, the last answer had no continuation: return, close(c)
TaskNextEnd(t) ==
  /\ proc = "running" /\ tasks[t].pc = "next" /\ tasks[t].got
  /\ tasks' = [tasks EXCEPT ![t].pc = "done", ![t].got = FALSE]
  /\ UNCHANGED <<proc, diag, readerVars, wpc, resolverVars, categoryInfo, answers, queryErr,
                 served, mergeVars, renderVars>>

\* q.Next() is false because the request failed (transport or API error): the
\* error stays in the query object, the loop ends, return, close(c)
TaskNextError(t) ==
  /\ proc = "running" /\ tasks[t].pc = "next"
  /\ tasks' = [tasks EXCEPT ![t].pc = "done", ![t].got = FALSE]
  /\ queryErr' = TRUE
  /\ UNCHANGED <<proc, diag, readerVars, wpc, resolverVars, categoryInfo, answers, served,
                 mergeVars, renderVars>>

\* line 359: categoryMembers[title] = thisCategoryInfo, then the next page
TaskStore(t) ==
  /\ proc = "running" /\ tasks[t].pc = "store"
  /\ categoryInfo' = MapPut(categoryInfo, tasks[t].title, tasks[t].info)
  /\ tasks' = [tasks EXCEPT ![t].title = EmptyString, ![t].info = ZeroInfo, ![t].pc = "next"]
  /\ UNCHANGED <<proc, diag, readerVars, wpc, resolverVars, answers, queryErr, served,
                 mergeVars, renderVars>>

\* task t is at line 359, about to write the shared map
Writing(t) == tasks[t].pc = "store"

\* task t has asked about titles and reads the shared map (line 340) as soon as
\* a page comes
Reading(t) == tasks[t].pc = "next" /\ tasks[t].lo < tasks[t].hi

\* The tasks share the map without any lock or channel between them.  When the
\* write of one meets an access of another, the Go runtime either lets the two go
\* one after the other (the steps above) or stops the process with "fatal error:
\* concurrent map writes" or "concurrent map read and map write" (this step).
MapRace(t, u) ==
  /\ proc = "running" /\ t # u
  /\ Writing(t) /\ (Writing(u) \/ Reading(u))
  /\ Exit("fatal", "map")
  /\ UNCHANGED <<lookups, answers, queryErr, edits>>

(***************************************************************************)
(* queryWdq: merge                                                         *)
(***************************************************************************)
\* lines 299-305
MergeSpecimen(sp, index) ==
  LET thisCategoryInfo == MapGet(index, sp.CommonsCategoryName, ZeroInfo)
  IN  [sp EXCEPT !.FileCount = thisCategoryInfo.files,
                 !.SubCats = thisCategoryInfo.subCats,
                 !.SubCatsFileCounts = thisCategoryInfo.subCatsFiles,
                 !.TotalFiles = thisCategoryInfo.files + thisCategoryInfo.subCatsFiles]

\* one iteration of the inner loop of lines 296-310, for the group of key k: the
\* range over the map visits the keys in an order the runtime chooses; the send
\* on updatedSpecimens is received by the range loop of updateWikiPage
MergeEmit(k) ==
  /\ proc = "running" /\ wpc = "merge" /\ upc = "recv"
  /\ k \in DOMAIN specimensByWikidataId
  /\ \/ mergeCur = <<k>>
     \/ mergeCur = <<>> /\ k \notin mergeDone
  /\ LET itemSpecimens == specimensByWikidataId[k]
         sp == MergeSpecimen(itemSpecimens[mergeIdx], categoryInfo)
     IN  /\ specimensBuffer' = Append(specimensBuffer, sp)
         /\ IF mergeIdx = Len(itemSpecimens)
              THEN mergeDone' = mergeDone \cup {k} /\ mergeCur' = <<>> /\ mergeIdx' = 1
              ELSE mergeCur' = <<k>> /\ mergeIdx' = mergeIdx + 1 /\ UNCHANGED mergeDone
  /\ UNCHANGED <<proc, diag, readerVars, wpc, resolverVars, taskVars, upc, updatedClosed,
                 templateInput, edits, cClosed>>

\* the loops are over: queryWdq returns and the deferred close(updatedSpecimens) runs
QueryWdqReturn ==
  /\ proc = "running" /\ wpc = "merge"
  /\ mergeCur = <<>> /\ mergeDone = DOMAIN specimensByWikidataId
  /\ wpc' = "returned"
  /\ updatedClosed' = TRUE
  /\ UNCHANGED <<proc, diag, readerVars, resolverVars, taskVars, mergeVars, upc, specimensBuffer,
                 templateInput, edits, cClosed>>

(***************************************************************************)
(* updateWikiPage and main                                                 *)
(***************************************************************************)
\* Less with its operands exchanged: a descending order
LessReversed(a, b) == StrLess(b.OriginalName, a.OriginalName)

\* byOriginalName.Less on two elements
Less(a, b) == StrLess(a.OriginalName, b.OriginalName)

\* byOriginalName.Swap(j, k)
Swap(s, j, k) == [s EXCEPT ![j] = s[k], ![k] = s[j]]

\* the inner loop of the insertion sort: s[j] moves left while it is Less than its neighbour
RECURSIVE SiftLeft(_, _)
SiftLeft(s, j) ==
  IF j > 1 /\ Less(s[j], s[j - 1]) THEN SiftLeft(Swap(s, j, j - 1), j - 1) ELSE s

RECURSIVE SortFrom(_, _)
SortFrom(s, j) == IF j > Len(s) THEN s ELSE SortFrom(SiftLeft(s, j), j + 1)

\* SortByOriginalName left out: the buffer is rendered as received
NoSort(s) == s

\* sort.Sort(byOriginalName(specimensBuffer)): on the short slices of this model
\* sort.Sort is an insertion sort driven by Less and Swap
SortByOriginalName(s) == SortFrom(s, 2)

\* ReceivedAll for a loop that stops at the first specimen received
ReceivedOne == updatedClosed \/ specimensBuffer # <<>>

\* "for specimen := range specimens" of updateWikiPage has ended: the channel is closed
ReceivedAll == updatedClosed

\* lines 413-428: the range loop ended, sort, read and parse the template, Execute
RenderPage(templateOk) ==
  /\ proc = "running" /\ upc = "recv" /\ ReceivedAll
  /\ IF templateOk
       THEN /\ specimensBuffer' = SortByOriginalName(specimensBuffer)
            /\ templateInput' = <<specimensBuffer'>>
            /\ upc' = "edit"
            /\ UNCHANGED <<proc, diag, readerVars, wpc, resolverVars, taskVars, mergeVars,
                           updatedClosed, edits, cClosed>>
       ELSE Fatal("template")

\* lines 430-439: wiki.Edit(parameters); check(e); the deferred close(c)
EditPage(ok) ==
  /\ proc = "running" /\ upc = "edit"
  /\ edits' = edits + 1
  /\ UNCHANGED <<lookups, answers, queryErr>>
  /\ IF ok
       THEN /\ upc' = "done"
            /\ cClosed' = TRUE
            /\ UNCHANGED <<proc, diag, readerVars, wpc, specimensByWikidataId, wikidataIds,
                           props, i, cursor, categoryNames, commonsQueries, waitIdx, tasks,
                           categoryInfo, served, mergeVars, specimensBuffer, updatedClosed,
                           templateInput>>
       ELSE Exit("fatal", "edit")

\* main: <-c; wiki.Logout(); return
MainLogout ==
  /\ proc = "running" /\ cClosed
  /\ Exit("exited", "none")
  /\ UNCHANGED <<lookups, answers, queryErr, edits>>

(***************************************************************************)
(* Specification.                                                          *)
(***************************************************************************)
Next ==
  \/ \E ok \in BOOLEAN : OpenCatalog(ok)
  \/ \E shape \in RowShapes, row \in Rows : ReadRow(shape, row)
  \/ ReadEOF
  \/ \E transportOk \in BOOLEAN, status \in HttpStatuses, statusError \in {"OK", "ERR"},
        answer \in LookupAnswers(catalog) :
       QueryLookup(transportOk, status, statusError, answer)
  \/ PropsStep
  \/ LastQuery
  \/ WaitQuery
  \/ StartUpdate
  \/ \E t \in DOMAIN tasks :
       \E page \in PageEntries(categoryNames, tasks[t].lo, tasks[t].hi) : TaskNextPage(t, page)
  \/ \E t \in DOMAIN tasks :
       \E page \in PageEntries(categoryNames, tasks[t].lo, tasks[t].hi) :
         /\ page.subcats.ok
         /\ \E subpages \in SubPages, ending \in {"end", "err", "nopages"} :
              TaskNextPageSubcats(t, page, subpages, ending)
  \/ \E t \in DOMAIN tasks : TaskNextMalformed(t)
  \/ \E t \in DOMAIN tasks : TaskNextEnd(t)
  \/ \E t \in DOMAIN tasks : TaskNextError(t)
  \/ \E t \in DOMAIN tasks : TaskStore(t)
  \/ \E t \in DOMAIN tasks : \E u \in DOMAIN tasks : MapRace(t, u)
  \/ \E k \in DOMAIN specimensByWikidataId : MergeEmit(k)
  \/ QueryWdqReturn
  \/ \E templateOk \in BOOLEAN : RenderPage(templateOk)
  \/ \E ok \in BOOLEAN : EditPage(ok)
  \/ MainLogout

Spec == Init /\ [][Next]_vars

\* The Go scheduler runs a goroutine that can run, and every call to a service
\* returns: as long as some step is possible, a step is taken.
FairSpec == Spec /\ WF_vars(Next)

(***************************************************************************)
(* Helpers of the properties.                                              *)
(***************************************************************************)
\* the category names the lookup service reported, in its order, as queryWdq names them
ReportedNames == [p \in 1..Len(props) |-> CATEGORY_NAMESPACE \o props[p][3]]

\* the names handed to the tasks 1..n, one after the other in spawn order
RECURSIVE SentNames(_)
SentNames(n) == IF n = 0 THEN <<>> ELSE SentNames(n - 1) \o TaskNames(n)

\* the loop over the lookup's rows is over and the last task has been started
Fetching == proc = "running" /\ wpc \in {"wait", "merge", "returned"}

(***************************************************************************)
(* C1: the tasks get consecutive chunks of at most 50 names each, and the  *)
(* chunks, one after the other in spawn order, are the list of names the   *)
(* lookup reported: while the loop runs they are the names before cursor,  *)
(* once the last task is started they are the whole list, each name sent   *)
(* once and none left out, also when the length is a multiple of 50.       *)
(***************************************************************************)
C1_ChunksAreTheList ==
  proc = "running" =>
    /\ \A t \in DOMAIN tasks :
         /\ 0 <= tasks[t].lo /\ tasks[t].lo <= tasks[t].hi
         /\ tasks[t].hi <= Len(categoryNames)
         /\ tasks[t].hi - tasks[t].lo <= BatchSize
    /\ wpc = "props" =>
         /\ categoryNames = SubSeq(ReportedNames, 1, i)
         /\ SentNames(Len(tasks)) = GoSlice(categoryNames, 0, cursor)
    /\ Fetching => SentNames(Len(tasks)) = ReportedNames

\* the lookup reported exactly 100 names and both chunks have been handed out
C1_Witness ==
  /\ Fetching
  /\ Len(props) = 2 * BatchSize
  /\ Len(tasks) = 2
  /\ TaskNames(2) = GoSlice(ReportedNames, BatchSize, 2 * BatchSize)

(***************************************************************************)
(* C2: once the last task is started, the number of tasks is the number of *)
(* names divided by 50, rounded up; none for no name.                      *)
(***************************************************************************)
C2_TaskCountIsCeiling ==
  Fetching => Len(tasks) = (Len(props) + BatchSize - 1) \div BatchSize

(***************************************************************************)
(* C3: once a statistics query for reported category names has failed,     *)
(* the merge does not run and no edit is published.                        *)
(***************************************************************************)
C3_QueryFailureAborts ==
  (queryErr /\ categoryNames # <<>>) =>
    (wpc \notin {"merge", "returned"} /\ upc \notin {"recv", "edit", "done"} /\ edits = 0)

(***************************************************************************)
(* C4: when the reader cannot open the catalog or meets a row it cannot    *)
(* read (a field count other than 9, an I/O failure), or the lookup fails  *)
(* (transport, status other than 200, error status in the payload), the    *)
(* process is dead and no edit has been published.                         *)
(***************************************************************************)
C4_FatalInputNeverPublished ==
  diag \in {"open", "row", "lookup", "status", "error"} =>
    (proc \in {"fatal", "panic"} /\ edits = 0)

\* the lookup was made, after the whole catalog, and answered with a status other than 200
C4_Witness == proc = "panic" /\ diag = "status" /\ lookups = 1 /\ edits = 0

(***************************************************************************)
(* C5: whenever the merge has started (the renderer is started, a record   *)
(* is looked up or emitted), every task ever spawned has returned.         *)
(***************************************************************************)
C5_MergeAfterAllTasks ==
  (proc = "running" /\ (wpc \in {"merge", "returned"} \/ upc # "idle" \/ specimensBuffer # <<>>)) =>
    \A t \in DOMAIN tasks : tasks[t].pc = "done"

\* three tasks were spawned, they stored statistics, and the merge has emitted a record
C5_Witness ==
  /\ proc = "running" /\ wpc = "merge"
  /\ Len(tasks) = 3
  /\ categoryInfo # <<>>
  /\ specimensBuffer # <<>>

(***************************************************************************)
(* C6: every record the merge emits whose category name is empty or is no  *)
(* key of the category index has all four counts 0, and once the merge is  *)
(* over every catalog record has reached the renderer.                     *)
(***************************************************************************)
C6_MissingCategoryGivesZeros ==
  proc = "running" =>
    /\ \A j \in DOMAIN specimensBuffer :
         LET r == specimensBuffer[j]
         IN  (r.CommonsCategoryName = EmptyString \/ r.CommonsCategoryName \notin DOMAIN categoryInfo)
               => (r.FileCount = 0 /\ r.SubCats = 0 /\ r.SubCatsFileCounts = 0 /\ r.TotalFiles = 0)
    /\ (wpc = "returned" /\ upc = "recv") => Len(specimensBuffer) = Len(catalog)

\* an unresolved record was emitted next to a record whose category has files
C6_Witness ==
  /\ proc = "running" /\ wpc = "returned"
  /\ \E j, k \in DOMAIN specimensBuffer :
       /\ specimensBuffer[j].CommonsCategoryName = EmptyString
       /\ specimensBuffer[j].TotalFiles = 0
       /\ specimensBuffer[k].TotalFiles > 0

(***************************************************************************)
(* C7: every record the merge emits has total = own files + subcategory    *)
(* files, with both summands at least 0.                                   *)
(***************************************************************************)
C7_TotalIsSum ==
  proc = "running" =>
    \A j \in DOMAIN specimensBuffer :
      LET r == specimensBuffer[j]
      IN  /\ r.TotalFiles = r.FileCount + r.SubCatsFileCounts
          /\ r.FileCount >= 0
          /\ r.SubCatsFileCounts >= 0

\* a record with own files and subcategory files, and one whose page had no file count
C7_Witness ==
  /\ proc = "running"
  /\ \E j \in DOMAIN specimensBuffer :
       /\ specimensBuffer[j].FileCount = 3
       /\ specimensBuffer[j].SubCatsFileCounts = 2
       /\ specimensBuffer[j].TotalFiles = 5
  /\ \E j \in DOMAIN specimensBuffer :
       /\ specimensBuffer[j].CommonsCategoryName \in DOMAIN categoryInfo
       /\ specimensBuffer[j].SubCats = 1
       /\ specimensBuffer[j].FileCount = 0

\* the distinct elements of s, in the order of their first occurrence
RECURSIVE FirstSeen(_)
FirstSeen(s) ==
  IF s = <<>> THEN <<>>
  ELSE LET front == FirstSeen(SubSeq(s, 1, Len(s) - 1))
           last == s[Len(s)]
       IN  IF \E p \in DOMAIN front : front[p] = last THEN front ELSE Append(front, last)

\* the merged records of the groups of keys, group after group
RECURSIVE MergedOf(_)
MergedOf(keys) ==
  IF keys = <<>> THEN <<>>
  ELSE LET g == specimensByWikidataId[Head(keys)]
       IN  [j \in DOMAIN g |-> MergeSpecimen(g[j], categoryInfo)] \o MergedOf(Tail(keys))

\* what the renderer gets in the run that visits the groups in first-seen order
ReferenceInput == SortByOriginalName(MergedOf(FirstSeen(wikidataIds)))

\* number of occurrences of r in s
Count(s, r) == Cardinality({p \in DOMAIN s : s[p] = r})

(***************************************************************************)
(* C8, as claimed: the sequence handed to the template is the same in      *)
(* every run over the same merged records: it is the sequence of the run   *)
(* that visits the groups in first-seen order.                             *)
(***************************************************************************)
C8_SameSequenceEveryRun ==
  templateInput # <<>> => templateInput[1] = ReferenceInput

(***************************************************************************)
(* C8, amended: the sequence handed to the template holds the same records *)
(* in every run, and the same original name at every position; only        *)
(* records of equal original name may change places.                       *)
(***************************************************************************)
C8_SameUpToTies ==
  templateInput # <<>> =>
    LET out == templateInput[1]
        ref == ReferenceInput
    IN  /\ Len(out) = Len(ref)
        /\ \A j \in DOMAIN ref : out[j].OriginalName = ref[j].OriginalName
        /\ \A j \in DOMAIN ref : Count(out, ref[j]) = Count(ref, ref[j])

\* two records of equal name were rendered in the order opposite to the reference run's
C8_Witness ==
  /\ templateInput # <<>>
  /\ Len(templateInput[1]) = 2
  /\ templateInput[1] # ReferenceInput

(***************************************************************************)
(* C9: the sequence handed to the template is in ascending order of        *)
(* original name, under the bytewise order of strings.                     *)
(***************************************************************************)
C9_SortedByOriginalName ==
  templateInput # <<>> =>
    \A j, k \in DOMAIN templateInput[1] :
      j < k => ~StrLess(templateInput[1][k].OriginalName, templateInput[1][j].OriginalName)

\* row 2 of the catalog ("AB") was rendered before row 1 ("B"): the sort moved it
C9_Witness ==
  /\ templateInput # <<>>
  /\ Len(templateInput[1]) = 2
  /\ templateInput[1][1].AccessionNumber = Itoa(2)
  /\ templateInput[1][2].AccessionNumber = Itoa(1)
  /\ templateInput[1][1].OriginalName # templateInput[1][2].OriginalName

\* the specimen as the reader sent it
AsRead(sp) == [sp EXCEPT !.CommonsCategoryName = EmptyString]

\* number of records in the groups of the keys in S
RECURSIVE GroupSizes(_)
GroupSizes(S) ==
  IF S = {} THEN 0
  ELSE LET k == CHOOSE x \in S : TRUE
       IN  Len(specimensByWikidataId[k]) + GroupSizes(S \ {k})

\* the row of the catalog a record of a group came from
RowOf(sp) == CHOOSE p \in DOMAIN catalog : catalog[p] = AsRead(sp)

(***************************************************************************)
(* C10: the groups partition the records read: every record read is in a   *)
(* group, the groups hold as many records as were read (so each is in one  *)
(* group, once), and inside a group the records are in catalog order.      *)
(***************************************************************************)
C10_GroupsPartitionCatalog ==
  proc = "running" =>
    /\ \A p \in DOMAIN catalog :
         \E k \in DOMAIN specimensByWikidataId :
           \E j \in DOMAIN specimensByWikidataId[k] :
             AsRead(specimensByWikidataId[k][j]) = catalog[p]
    /\ GroupSizes(DOMAIN specimensByWikidataId) = Len(catalog)
    /\ \A k \in DOMAIN specimensByWikidataId :
         \A j, jj \in DOMAIN specimensByWikidataId[k] :
           j < jj => RowOf(specimensByWikidataId[k][j]) < RowOf(specimensByWikidataId[k][jj])

\* the reader is drained and two records share one taxon identifier
C10_Witness ==
  /\ proc = "running" /\ specimensClosed /\ wpc = "drain"
  /\ \E k \in DOMAIN specimensByWikidataId : Len(specimensByWikidataId[k]) = 2

\* the title of the category "Foo"
CategoryFoo == CATEGORY_NAMESPACE \o <<70, 111, 111>>

\* the run is the end-to-end scenario: two rows of taxon Q1 and one of taxon Q2
\* were read, the lookup resolved Q1 alone, to "Foo", and the statistics service
\* said of Category:Foo, every time, 3 files and 1 subcategory holding 2 files
EndToEndScenario ==
  /\ Len(catalog) = 3
  /\ catalog[1].WikidataItemId = <<81, 49>>
  /\ catalog[2].WikidataItemId = <<81, 49>>
  /\ catalog[3].WikidataItemId = <<81, 50>>
  /\ props = << <<1, 0, <<70, 111, 111>> >> >>
  /\ ~queryErr
  /\ served.steady
  /\ CategoryFoo \in DOMAIN served.told
  /\ served.told[CategoryFoo].data = [files |-> 3, subCats |-> 1, subCatsFiles |-> 2]

(***************************************************************************)
(* C11: in the end-to-end scenario the template is given three records,    *)
(* one per catalog row, the two of taxon Q1 with TotalFiles = 5, the one   *)
(* of taxon Q2 with TotalFiles = 0, in ascending order of original name.   *)
(***************************************************************************)
C11_EndToEnd ==
  (templateInput # <<>> /\ EndToEndScenario) =>
    LET out == templateInput[1]
    IN  /\ Len(out) = 3
        /\ \A p \in 1..3 : \E j \in 1..3 : out[j].AccessionNumber = Itoa(p)
        /\ \A j \in 1..3 :
             /\ out[j].WikidataItemId = <<81, 49>> => out[j].TotalFiles = 5
             /\ out[j].WikidataItemId = <<81, 50>> => out[j].TotalFiles = 0
        /\ \A j, k \in 1..3 :
             j < k => ~StrLess(out[k].OriginalName, out[j].OriginalName)

\* the scenario was rendered, and the row read second ("AB") comes first
C11_Witness ==
  /\ templateInput # <<>> /\ EndToEndScenario
  /\ templateInput[1][1].AccessionNumber = Itoa(2)
  /\ templateInput[1][1].TotalFiles = 5
  /\ \E j \in 2..3 : templateInput[1][j].TotalFiles = 0

(***************************************************************************)
(* C12: at no moment is a task about to write the shared category index    *)
(* while another task is about to write it or to read it.                  *)
(***************************************************************************)
C12_MapAccessExclusive ==
  proc = "running" =>
    \A t, u \in DOMAIN tasks :
      t # u => ~(Writing(t) /\ (Writing(u) \/ Reading(u)))

\* the places, task and position in its chunk, where a name was handed to a task
PlacesOf(name) ==
  {tp \in (DOMAIN tasks) \X (1..BatchSize) :
     tp[2] <= Len(TaskNames(tp[1])) /\ TaskNames(tp[1])[tp[2]] = name}

\* the names the lookup reported for two taxon identifiers or more
SharedNames ==
  {ReportedNames[p] : p \in {x \in DOMAIN props :
     \E y \in DOMAIN props : props[y][3] = props[x][3] /\ props[y][1] # props[x][1]}}

(***************************************************************************)
(* C13: once the tasks are started, a category name the lookup reported    *)
(* for several taxon identifiers is in one chunk only, once.               *)
(***************************************************************************)
C13_SharedNameQueriedOnce ==
  Fetching => \A name \in SharedNames : Cardinality(PlacesOf(name)) = 1

(***************************************************************************)
(* C14: an entry of the category index that counts no subcategory counts   *)
(* no file in subcategories.                                               *)
(***************************************************************************)
C14_NoSubcatsNoSubcatFiles ==
  \A title \in DOMAIN categoryInfo :
    categoryInfo[title].subCats = 0 => categoryInfo[title].subCatsFiles = 0

\* every task has returned
TasksDone == \A t \in DOMAIN tasks : tasks[t].pc = "done"

(***************************************************************************)
(* C15: when the service has said the same of every title each time it was *)
(* asked, then, once the tasks have returned, the entry of every title it  *)
(* reported on is what it said: the entry one query alone stores, whatever *)
(* the number of tasks that stored it and the order of their reads and     *)
(* writes.                                                                 *)
(***************************************************************************)
C15_SameDataSameEntry ==
  (proc = "running" /\ Fetching /\ TasksDone /\ served.steady) =>
    \A title \in DOMAIN served.told :
      /\ title \in DOMAIN categoryInfo
      /\ categoryInfo[title] = served.told[title].data

\* two tasks were told the same of one title, which has files in a subcategory
C15_Witness ==
  /\ proc = "running" /\ Fetching /\ TasksDone /\ served.steady
  /\ \E title \in DOMAIN served.told :
       /\ Cardinality(served.told[title].tasks) = 2
       /\ served.told[title].data = [files |-> 3, subCats |-> 1, subCatsFiles |-> 2]

(***************************************************************************)
(* C16: at most one lookup is made, exactly one once the resolver has gone *)
(* past its drain loop, and while the reader has not met the end of the    *)
(* catalog and closed the channel there is no lookup, no task and no       *)
(* merge.                                                                  *)
(***************************************************************************)
C16_OneLookupAfterDrain ==
  /\ lookups <= 1
  /\ proc = "running" =>
       /\ wpc # "drain" => lookups = 1
       /\ (lookups > 0 \/ wpc # "drain" \/ tasks # <<>> \/ answers > 0 \/ upc # "idle"
           \/ specimensBuffer # <<>>)
            => (specimensClosed /\ rpc = "done")

\* two rows were read before the one lookup, and the tasks are started
C16_Witness ==
  /\ proc = "running" /\ lookups = 1 /\ Len(catalog) = 2 /\ wpc = "wait"
  /\ specimensClosed

\* the taxon identifiers of the catalog rows, in catalog order, without their prefix
CatalogIds == [p \in DOMAIN catalog |-> TrimPrefixQ(catalog[p].WikidataItemId)]

(***************************************************************************)
(* C17: the identifier list of the lookup is the list of the distinct      *)
(* taxon identifiers of the catalog, without prefix, each once, in the     *)
(* order in which the catalog first names them.                            *)
(***************************************************************************)
C17_DistinctIdsSent ==
  (proc = "running" /\ lookups = 1) => wikidataIds = FirstSeen(CatalogIds)

\* the response pairs about the taxon whose group has key k
PairsOf(k) == {p \in DOMAIN props : Itoa(props[p][1]) = k}

\* the greatest element of a non-empty set of numbers
Last(S) == CHOOSE p \in S : \A q \in S : q <= p

Unmerged(sp) ==
  [sp EXCEPT !.CommonsCategoryName = EmptyString, !.FileCount = 0, !.SubCats = 0,
             !.SubCatsFileCounts = 0, !.TotalFiles = 0]

\* the buffer holds one merged record for each catalog row, and nothing else
OnePerRow ==
  /\ Len(specimensBuffer) = Len(catalog)
  /\ \A p \in DOMAIN catalog :
       Cardinality({j \in DOMAIN specimensBuffer : Unmerged(specimensBuffer[j]) = catalog[p]}) = 1

(***************************************************************************)
(* C20: an edit is published only when none was before, the merge is over  *)
(* and the renderer's buffer holds exactly one merged record per catalog   *)
(* row; and main logs out only after an edit.                              *)
(***************************************************************************)
C20_OneEditAfterMerge ==
  [][/\ edits' # edits =>
          /\ edits = 0 /\ edits' = 1
          /\ wpc = "returned" /\ mergeDone = DOMAIN specimensByWikidataId
          /\ OnePerRow
     /\ proc' = "exited" => edits' = 1]_vars

\* the report on two rows was published, once, and main is about to log out
C20_Witness ==
  /\ proc = "running" /\ cClosed /\ edits = 1
  /\ Len(catalog) = 2 /\ OnePerRow

(***************************************************************************)
(* C19: the run does not hang on a channel: when goroutines that can run   *)
(* do run and the services answer, the process ends, by a fatal error or,  *)
(* when there is none, by main logging out after the completion signal.    *)
(***************************************************************************)
C19_RunEnds == <>(proc \in {"exited", "fatal", "panic"})

\* a run without any error, with two tasks and one result page each: the
\* renderer has published and closed c, main is the one goroutine left
C19_Witness ==
  /\ proc = "running" /\ cClosed /\ edits = 1
  /\ Len(tasks) = 2 /\ answers = 2 /\ ~queryErr

====
